---- MODULE Spec2Model ----
(***************************************************************************)
(* Model of the feature-engineering pipeline of predicaoclimatica:         *)
(* preprocess_climate_data.py, that is preprocess_data,                    *)
(* prepare_for_quantum and the __main__ block that persists the two        *)
(* arrays.                                                                 *)
(*                                                                         *)
(* Numbers.  A cell of a DataFrame is NaN or Val(v) with v a natural       *)
(* number; comparisons against mean + 2*std are carried out exactly, in    *)
(* integer arithmetic, after clearing denominators.  A scaled feature is   *)
(* a reduced fraction <<n, d>> standing for the real number (n/d)*pi.      *)
(* The model gives no account of floating-point rounding.                  *)
(***************************************************************************)
EXTENDS Integers, Sequences, FiniteSets, TLC

VARIABLES
    era5_nc,        \* the file era5_uberlandia_2020.nc
    sst_nc,         \* the file era5_sst_atlantic_2020.nc
    X_file,         \* the artifact X_quantum_ready.npy
    y_file,         \* the artifact y_quantum_ready.npy
    before,         \* the two artifacts as they were when the run started
    pc,             \* position of the __main__ block
    df_processed,   \* value returned by preprocess_data
    df_final,       \* the joined frame preprocess_data built (local of the call)
    opens,          \* the xr.open_dataset calls made so far, in order
    handles,        \* datasets opened and not released
    exc,            \* the exception that ended the run, or "none"
    X,              \* feature matrix returned by prepare_for_quantum
    y               \* label matrix returned by prepare_for_quantum

vars == <<era5_nc, sst_nc, X_file, y_file, before, pc, df_processed, df_final,
          opens, handles, exc, X, y>>

-----------------------------------------------------------------------------
(* Bounds of the model                                                     *)

MaxTime == 3        \* timestamps of the pipeline inputs are 1..MaxTime
MaxNaN == 1         \* NaN cells per file of the pipeline inputs
MaxLabelRows == 7   \* longest series of the labelling inputs
MaxTemp == 2        \* t2m of the labelling inputs is 0..MaxTemp
MaxWarm == 2        \* rows of a labelling input with t2m above 0
MaxEncRows == 3     \* longest Dataset handed to the encoder directly
MaxBase == 1        \* feature values of such a Dataset are 0..MaxBase + 1

-----------------------------------------------------------------------------
(* Cells, rows, frames                                                     *)

NaN == << >>
Val(v) == <<v>>
IsNaN(c) == c = NaN

Has(cols, c) == \E i \in DOMAIN cols : cols[i] = c
Names(cols) == {cols[i] : i \in DOMAIN cols}

DataFrame(cols, rows) == [columns |-> cols, rows |-> rows]
None == [none |-> TRUE]

Row(t, cells) == [time |-> t, cells |-> cells]

AssignColumn(row, name, v) ==
    Row(row.time, [n \in (DOMAIN row.cells) \cup {name} |->
                       IF n = name THEN v ELSE row.cells[n]])

\* the selected rows, last first
RECURSIVE SelectRowsReversed(_, _)
SelectRowsReversed(rows, keep) ==
    IF rows = << >> THEN << >>
    ELSE IF Head(rows).time \in keep
         THEN SelectRowsReversed(Tail(rows), keep) \o <<Head(rows)>>
         ELSE SelectRowsReversed(Tail(rows), keep)

RECURSIVE SelectRows(_, _)
SelectRows(rows, keep) ==
    IF rows = << >> THEN << >>
    ELSE IF Head(rows).time \in keep
         THEN <<Head(rows)>> \o SelectRows(Tail(rows), keep)
         ELSE SelectRows(Tail(rows), keep)

TimesOf(rows) == {rows[i].time : i \in DOMAIN rows}
RowAt(rows, t) == rows[CHOOSE i \in DOMAIN rows : rows[i].time = t]

-----------------------------------------------------------------------------
(* calculate_relative_humidity                                             *)

\* 100 * exp(a(TD)) / exp(a(T)): NaN propagates; for d2m = t2m the two
\* exponentials are the same number and the quotient is exactly 1.  Other
\* arguments need real exponentials and are left undefined: no input of the
\* model has a dew point different from the temperature.
calculate_relative_humidity(t2m, d2m) ==
    CASE IsNaN(t2m) \/ IsNaN(d2m) -> NaN
      [] ~(IsNaN(t2m) \/ IsNaN(d2m)) /\ t2m = d2m -> Val(100)

-----------------------------------------------------------------------------
(* preprocess_data, step by step                                           *)

\* ds.mean(dim=['latitude','longitude']).to_dataframe(): the file's 'series'
\* holds, per timestamp, the spatial mean of every variable.
to_dataframe(file) == DataFrame(file.vars, file.series)

\* lines 41-42
WithRelativeHumidity(df) ==
    IF Has(df.columns, "t2m") /\ Has(df.columns, "d2m")
    THEN DataFrame(Append(df.columns, "relative_humidity"),
                   [i \in DOMAIN df.rows |->
                       AssignColumn(df.rows[i], "relative_humidity",
                           calculate_relative_humidity(df.rows[i].cells["t2m"],
                                                       df.rows[i].cells["d2m"]))])
    ELSE df

\* line 50: df_uber.join(df_sst[['sst']], how='inner', rsuffix='_ocean')
\* on the index (the timestamp), keeping the order of the calling frame.
JoinedName(df) == IF Has(df.columns, "sst") THEN "sst_ocean" ELSE "sst"

InnerJoin(df_uber, df_sst) ==
    LET kept == SelectRows(df_uber.rows, TimesOf(df_sst.rows))
    IN  DataFrame(Append(df_uber.columns, JoinedName(df_uber)),
                  [i \in DOMAIN kept |->
                      AssignColumn(kept[i], JoinedName(df_uber),
                          RowAt(df_sst.rows, kept[i].time).cells["sst"])])

\* line 53
features == <<"sst", "relative_humidity", "sp", "ssrd">>

\* dropna(how='all'): a row is dropped only when every feature is missing
CompleteAny(row) == \E j \in DOMAIN features : ~IsNaN(row.cells[features[j]])

\* dropna() keeps the rows without a missing feature
Complete(row) == \A j \in DOMAIN features : ~IsNaN(row.cells[features[j]])

RECURSIVE DropNa(_)
DropNa(rows) ==
    IF rows = << >> THEN << >>
    ELSE IF Complete(Head(rows))
         THEN <<Head(rows)>> \o DropNa(Tail(rows))
         ELSE DropNa(Tail(rows))

Project(row, cols) == Row(row.time, [n \in Names(cols) |-> row.cells[n]])

\* line 54: df_final[features].dropna()
SelectFeatures(df) ==
    DataFrame(features,
              DropNa([i \in DOMAIN df.rows |-> Project(df.rows[i], features)]))

\* pandas Series.mean() and Series.std() skip NaN; std() divides by n - 1.
RECURSIVE Numbers(_, _)
Numbers(rows, name) ==
    IF rows = << >> THEN << >>
    ELSE IF IsNaN(Head(rows).cells[name])
         THEN Numbers(Tail(rows), name)
         ELSE <<Head(rows).cells[name][1]>> \o Numbers(Tail(rows), name)

RECURSIVE Sum(_)
Sum(s) == IF s = << >> THEN 0 ELSE Head(s) + Sum(Tail(s))

Squares(s) == [i \in DOMAIN s |-> s[i] * s[i]]

\* n * sum of squared deviations from the mean, an integer
Spread(s) == Len(s) * Sum(Squares(s)) - Sum(s) * Sum(s)

\* t > mean(s) + 2 * std(s) with the population deviation (divisor n)
AboveThresholdPopulation(t, s) ==
    LET d == Len(s) * t[1] - Sum(s)
    IN  /\ ~IsNaN(t)
        /\ Len(s) >= 1
        /\ d > 0
        /\ d * d > 4 * Spread(s)

\* lines 58-59: t > mean(s) + 2 * std(s), std the sample deviation (divisor
\* n - 1; NaN when fewer than two values, and then nothing is above it).
\* With d = n*t - sum(s): d > 0 and d*d*(n - 1) > 4*n*Spread(s).
AboveThreshold(t, s) ==
    LET d == Len(s) * t[1] - Sum(s)
    IN  /\ ~IsNaN(t)
        /\ Len(s) >= 2
        /\ d > 0
        /\ d * d * (Len(s) - 1) > 4 * Len(s) * Spread(s)

\* line 59: the comparison is made on df_final['t2m'] and assigned by index
WithTarget(df_model, joined) ==
    LET t2m == Numbers(joined.rows, "t2m")
    IN  DataFrame(Append(df_model.columns, "target"),
                  [i \in DOMAIN df_model.rows |->
                      AssignColumn(df_model.rows[i], "target",
                          IF AboveThreshold(
                                 RowAt(joined.rows, df_model.rows[i].time).cells["t2m"],
                                 t2m)
                          THEN 1 ELSE 0)])

NoFrame == DataFrame(<< >>, << >>)

Outcome(ret, e, joined, opened, held) ==
    [ret |-> ret, exc |-> e, joined |-> joined, opens |-> opened, handles |-> held]

\* line 31 with 'and' in place of 'or'
MissingInputBoth(era5, sst) == ~era5.exists /\ ~sst.exists

\* line 31
MissingInput(era5, sst) == ~era5.exists \/ ~sst.exists

\* The whole call, lines 27-62, with the datasets it leaves open: the
\* function has no close() and no with-block.
preprocess_data(era5, sst) ==
    IF MissingInput(era5, sst)
    THEN Outcome(None, "none", NoFrame, << >>, {})
    ELSE IF ~era5.valid
    THEN Outcome(None, "OSError", NoFrame, <<"era5">>, {})
    ELSE IF ~sst.valid
    THEN Outcome(None, "OSError", NoFrame, <<"era5", "sst">>, {"ds_uber"})
    ELSE IF ~Has(sst.vars, "sst")
    THEN Outcome(None, "KeyError", NoFrame, <<"era5", "sst">>, {"ds_uber", "ds_sst"})
    ELSE LET df_uber == WithRelativeHumidity(to_dataframe(era5))
             joined == InnerJoin(df_uber, to_dataframe(sst))
         IN  IF \E j \in DOMAIN features : ~Has(joined.columns, features[j])
             THEN Outcome(None, "KeyError", joined, <<"era5", "sst">>,
                          {"ds_uber", "ds_sst"})
             ELSE Outcome(WithTarget(SelectFeatures(joined), joined), "none", joined,
                          <<"era5", "sst">>, {"ds_uber", "ds_sst"})

-----------------------------------------------------------------------------
(* prepare_for_quantum                                                     *)

RECURSIVE GCD(_, _)
GCD(a, b) == IF b = 0 THEN a ELSE GCD(b, a % b)

\* the real number (n/d)*pi, d > 0, as a reduced fraction of pi
PiTimes(n, d) == <<n \div GCD(n, d), d \div GCD(n, d)>>

\* line 66: df.drop(columns=['target'])
RECURSIVE Without(_, _)
Without(cols, name) ==
    IF cols = << >> THEN << >>
    ELSE IF Head(cols) = name THEN Without(Tail(cols), name)
         ELSE <<Head(cols)>> \o Without(Tail(cols), name)

Column(df, name) == [i \in DOMAIN df.rows |-> df.rows[i].cells[name][1]]

Min(s) == CHOOSE m \in {s[i] : i \in DOMAIN s} : \A i \in DOMAIN s : m <= s[i]
Max(s) == CHOOSE m \in {s[i] : i \in DOMAIN s} : \A i \in DOMAIN s : m >= s[i]

\* a scaler dividing by the maximum instead of the range
MinMaxScaleByMax(col) ==
    LET lo == Min(col)
        scale == IF Max(col) = 0 THEN 1 ELSE Max(col)
    IN  [i \in DOMAIN col |-> PiTimes(col[i] - lo, scale)]

\* lines 70-71: MinMaxScaler(feature_range=(0, np.pi)).fit_transform on one
\* column: (x - min) * pi / (max - min), where a zero range is replaced by 1
\* (sklearn's _handle_zeros_in_scale), so a constant column comes out as 0.
MinMaxScale(col) ==
    LET lo == Min(col)
        range == Max(col) - Min(col)
        scale == IF range = 0 THEN 1 ELSE range
    IN  [i \in DOMAIN col |-> PiTimes(col[i] - lo, scale)]

\* one row of y_one_hot with the other index set
OneHotSwapped(val) == [k \in 1..2 |-> IF k = 2 - val THEN 1 ELSE 0]

\* lines 74-76: a row of zeros of width 2 with index val set to 1
OneHot(val) == [k \in 1..2 |-> IF k = val + 1 THEN 1 ELSE 0]

\* lines 64-78; fit_transform rejects a frame without rows (ValueError)
prepare_for_quantum(df) ==
    LET cols == Without(df.columns, "target")
        scaled == [j \in DOMAIN cols |-> MinMaxScale(Column(df, cols[j]))]
    IN  IF df.rows = << >>
        THEN [exc |-> "ValueError", X |-> << >>, y |-> << >>]
        ELSE [exc |-> "none",
              X |-> [i \in DOMAIN df.rows |-> [j \in DOMAIN cols |-> scaled[j][i]]],
              y |-> [i \in DOMAIN df.rows |-> OneHot(df.rows[i].cells["target"])]]

-----------------------------------------------------------------------------
(* The artifacts and np.save                                               *)

Absent == [state |-> "absent"]
Previous == [state |-> "complete", run |-> "previous"]
Partial == [state |-> "partial", run |-> "current"]
Written(array) == [state |-> "complete", run |-> "current", data |-> array]

-----------------------------------------------------------------------------
(* Inputs                                                                  *)

File(vs, series) == [exists |-> TRUE, valid |-> TRUE, vars |-> vs, series |-> series]
MissingFile == [exists |-> FALSE, valid |-> FALSE, vars |-> << >>, series |-> << >>]
CorruptFile == [exists |-> TRUE, valid |-> FALSE, vars |-> << >>, series |-> << >>]

RECURSIVE Ascending(_)
Ascending(T) ==
    IF T = {} THEN << >>
    ELSE LET m == CHOOSE t \in T : \A u \in T : t <= u
         IN  <<m>> \o Ascending(T \ {m})

\* Pipeline inputs: the series over the variables vs with timestamps T in
\* time order; the cell of a variable at time t is Val(t) unless it is one of
\* the at most MaxNaN missing cells of the file.
SeriesOn(T, vs) ==
    {[i \in 1..Cardinality(T) |->
         Row(Ascending(T)[i],
             [n \in Names(vs) |-> IF nan[Ascending(T)[i]][n] THEN NaN
                                  ELSE Val(Ascending(T)[i])])] :
        nan \in {f \in [T -> [Names(vs) -> BOOLEAN]] :
                    Cardinality({tn \in T \X Names(vs) : f[tn[1]][tn[2]]}) <= MaxNaN}}

SeriesOver(vs) == UNION {SeriesOn(T, vs) : T \in SUBSET (1..MaxTime)}

\* the four variables requested for the local file and the one requested for
\* the teleconnection file, under the short names they carry in the NetCDF files
ERA5_VARIABLES == <<"t2m", "d2m", "sp", "ssrd">>
LocalVars == {ERA5_VARIABLES, Without(ERA5_VARIABLES, "t2m"),
              Without(ERA5_VARIABLES, "d2m"),
              Without(Without(ERA5_VARIABLES, "t2m"), "d2m")}
SST_VARIABLE == <<"sst">>

LocalFiles ==
    {MissingFile, CorruptFile}
        \cup UNION {{File(vs, s) : s \in SeriesOver(vs)} : vs \in LocalVars}
TeleFiles ==
    {MissingFile, CorruptFile}
        \cup UNION {{File(vs, s) : s \in SeriesOver(vs)} : vs \in {SST_VARIABLE, << >>}}

\* the subsets of S with at most k elements
RECURSIVE SubsetsUpTo(_, _)
SubsetsUpTo(S, k) ==
    IF k = 0 THEN {{}}
    ELSE LET smaller == SubsetsUpTo(S, k - 1)
         IN  smaller \cup {p[1] \cup {p[2]} : p \in smaller \X S}

\* Labelling inputs: n timestamps; the rows of 'warm' have the temperature
\* given for them and the others 0; saturated air (d2m = t2m); and the items
\* of 'gone' missing: the t2m or sp cell of a row, or the teleconnection row
\* of that timestamp.
LabelItems(n) == (1..n) \X {"t2m", "sp", "sst"}

LabelCell(i, v, temp, gone) ==
    IF v = "t2m" THEN (IF <<i, "t2m">> \in gone THEN NaN ELSE Val(temp[i]))
    ELSE IF v = "d2m" THEN Val(temp[i])
    ELSE IF v = "sp" THEN (IF <<i, "sp">> \in gone THEN NaN ELSE Val(0))
    ELSE Val(0)

LabelLocal(n, temp, gone) ==
    File(ERA5_VARIABLES,
         [i \in 1..n |->
             Row(i, [v \in Names(ERA5_VARIABLES) |-> LabelCell(i, v, temp, gone)])])

LabelTele(n, gone) ==
    File(SST_VARIABLE,
         LET T == {i \in 1..n : <<i, "sst">> \notin gone}
         IN  [k \in 1..Cardinality(T) |-> Row(Ascending(T)[k], [v \in {"sst"} |-> Val(0)])])

\* Encoder inputs: Datasets of n rows; a row has a base value in all four
\* features, one of which may be higher by 1; the first row may be
\* labelled 1, the others are labelled 0.
RowShapes ==
    {[j \in 1..4 |-> b + (IF j = k THEN 1 ELSE 0)] : b \in 0..MaxBase, k \in 0..4}

FeatureIndex(c) == CHOOSE j \in DOMAIN features : features[j] = c

Dataset(n, shape, ones) ==
    DataFrame(Append(features, "target"),
              [i \in 1..n |->
                  Row(i, [c \in Names(features) \cup {"target"} |->
                             IF c = "target" THEN (IF i \in ones THEN 1 ELSE 0)
                             ELSE Val(shape[i][FeatureIndex(c)])])])

-----------------------------------------------------------------------------
(* The run of the __main__ block                                           *)

Start(prior) ==
    /\ X_file = prior
    /\ y_file = prior
    /\ before = [X |-> prior, y |-> prior]
    /\ pc = "preprocess"
    /\ df_processed = None
    /\ df_final = NoFrame
    /\ opens = << >>
    /\ handles = {}
    /\ exc = "none"
    /\ X = << >>
    /\ y = << >>

Init ==
    /\ era5_nc \in LocalFiles
    /\ sst_nc \in TeleFiles
    /\ \E prior \in {Absent, Previous} : Start(prior)

\* line 86.  After a normal return the two dataset objects are unreferenced:
\* whether the runtime has finalized (and so closed) them by the time the
\* caller resumes is not fixed by the code.  An exception keeps the frame,
\* and with it both objects, alive in its traceback.
Preprocess ==
    /\ pc = "preprocess"
    /\ \E o \in {preprocess_data(era5_nc, sst_nc)} :
         /\ df_processed' = o.ret
         /\ df_final' = o.joined
         /\ opens' = o.opens
         /\ handles' \in (IF o.exc = "none" THEN {{}, o.handles} ELSE {o.handles})
         /\ exc' = o.exc
         /\ pc' = IF o.exc # "none" THEN "crashed"
                  ELSE IF o.ret = None THEN "done" ELSE "prepare"
    /\ UNCHANGED <<era5_nc, sst_nc, X_file, y_file, before, X, y>>

\* lines 88-89
Prepare ==
    /\ pc = "prepare"
    /\ \E r \in {prepare_for_quantum(df_processed)} :
         /\ X' = r.X
         /\ y' = r.y
         /\ exc' = r.exc
         /\ pc' = IF r.exc # "none" THEN "crashed" ELSE "saveX"
    /\ UNCHANGED <<era5_nc, sst_nc, X_file, y_file, before, df_processed, df_final,
                   opens, handles>>

\* line 92
SaveX ==
    /\ pc = "saveX"
    /\ X_file' = Written(X)
    /\ pc' = "saveY"
    /\ UNCHANGED <<era5_nc, sst_nc, y_file, before, df_processed, df_final, opens,
                   handles, exc, X, y>>

\* line 92, np.save raising: the file could not be opened (left as it was) or
\* the write stopped part-way
SaveXFails ==
    /\ pc = "saveX"
    /\ X_file' \in {X_file, Partial}
    /\ exc' = "OSError"
    /\ pc' = "crashed"
    /\ UNCHANGED <<era5_nc, sst_nc, y_file, before, df_processed, df_final, opens,
                   handles, X, y>>

\* line 93
SaveY ==
    /\ pc = "saveY"
    /\ y_file' = Written(y)
    /\ pc' = "done"
    /\ UNCHANGED <<era5_nc, sst_nc, X_file, before, df_processed, df_final, opens,
                   handles, exc, X, y>>

\* line 93, np.save raising
SaveYFails ==
    /\ pc = "saveY"
    /\ y_file' \in {y_file, Partial}
    /\ exc' = "OSError"
    /\ pc' = "crashed"
    /\ UNCHANGED <<era5_nc, sst_nc, X_file, before, df_processed, df_final, opens,
                   handles, X, y>>

Next == Preprocess \/ Prepare \/ SaveX \/ SaveXFails \/ SaveY \/ SaveYFails

Spec == Init /\ [][Next]_vars

\* preprocess_data on the labelling inputs
InitLabel ==
    /\ \E n \in 0..MaxLabelRows :
         \E warm \in SubsetsUpTo(1..n, MaxWarm) :
           \E above \in [warm -> 1..MaxTemp] :
             \E gone \in {{}} \cup {{x} : x \in LabelItems(n)} :
               /\ era5_nc = LabelLocal(n, [i \in 1..n |-> IF i \in warm THEN above[i]
                                                        ELSE 0], gone)
               /\ sst_nc = LabelTele(n, gone)
    /\ Start(Absent)

NextLabel == Preprocess

SpecLabel == InitLabel /\ [][NextLabel]_vars

\* prepare_for_quantum called on a Dataset
InitEnc ==
    /\ era5_nc = MissingFile
    /\ sst_nc = MissingFile
    /\ X_file = Absent
    /\ y_file = Absent
    /\ before = [X |-> Absent, y |-> Absent]
    /\ pc = "prepare"
    /\ \E n \in 0..MaxEncRows :
         \E shape \in [1..n -> RowShapes] :
           \E ones \in {{}, {1} \cap (1..n)} :
             df_processed = Dataset(n, shape, ones)
    /\ df_final = NoFrame
    /\ opens = << >>
    /\ handles = {}
    /\ exc = "none"
    /\ X = << >>
    /\ y = << >>

NextEnc == Prepare

SpecEnc == InitEnc /\ [][NextEnc]_vars

-----------------------------------------------------------------------------
(* Properties                                                              *)

Exited == pc # "preprocess"
InputMissing == ~era5_nc.exists \/ ~sst_nc.exists
JoinBuilt == df_final.columns # << >>
Returned == df_processed # None
Encoded == pc = "saveX"

\* C1: when an input path does not exist, preprocess_data makes no
\* open_dataset call, hands the caller its missing-input result (None, no
\* exception), prepare_for_quantum is not called and neither artifact is
\* written.
C1_MissingInputReported ==
    (Exited /\ InputMissing) =>
        /\ opens = << >>
        /\ df_processed = None
        /\ exc = "none"
        /\ pc = "done"
        /\ X = << >> /\ y = << >>
        /\ X_file = before.X /\ y_file = before.y

C1_Witness == Exited /\ era5_nc.exists /\ era5_nc.valid /\ ~sst_nc.exists /\ pc = "done"

\* C2: after a failed run the two artifacts are both as they were before the
\* run or both completely written by it.
C2_NoPartialOutput ==
    pc = "crashed" =>
        \/ X_file = before.X /\ y_file = before.y
        \/ X_file = Written(X) /\ y_file = Written(y)

Position(rows, t) == CHOOSE i \in DOMAIN rows : rows[i].time = t

ExampleLocal == DataFrame(<<"sp">>, [i \in 1..3 |-> Row(i, [n \in {"sp"} |-> Val(i)])])
ExampleTele ==
    DataFrame(<<"sst">>, [i \in 1..3 |-> Row(i + 1, [n \in {"sst"} |-> Val(i + 1)])])
ExampleJoin == InnerJoin(ExampleLocal, ExampleTele)

\* C3: the joined frame holds exactly the timestamps present in both series,
\* each once, in the order of the local series, with the values the two
\* series have at that timestamp; {t1,t2,t3} joined with {t2,t3,t4} gives
\* <<t2,t3>>.
C3_InnerJoin ==
    /\ JoinBuilt =>
        /\ TimesOf(df_final.rows) = TimesOf(era5_nc.series) \cap TimesOf(sst_nc.series)
        /\ Len(df_final.rows) = Cardinality(TimesOf(df_final.rows))
        /\ \A i, j \in DOMAIN df_final.rows :
              i < j => Position(era5_nc.series, df_final.rows[i].time)
                         < Position(era5_nc.series, df_final.rows[j].time)
        /\ \A i \in DOMAIN df_final.rows :
              LET t == df_final.rows[i].time
              IN  /\ \A v \in Names(era5_nc.vars) :
                        df_final.rows[i].cells[v]
                            = era5_nc.series[Position(era5_nc.series, t)].cells[v]
                  /\ df_final.rows[i].cells["sst"]
                        = sst_nc.series[Position(sst_nc.series, t)].cells["sst"]
    /\ [i \in DOMAIN ExampleJoin.rows |-> ExampleJoin.rows[i].time] = <<2, 3>>

C3_Witness ==
    /\ JoinBuilt
    /\ TimesOf(era5_nc.series) = {1, 2, 3}
    /\ TimesOf(sst_nc.series) = {2, 3}
    /\ Len(df_final.rows) = 2

Incomplete(row) == \E f \in Names(features) : IsNaN(row.cells[f])

\* C4: the returned Dataset has as many rows as the join minus the joined
\* rows with a missing value among sst, relative_humidity, sp, ssrd; never
\* more than the join; every row has the four features, in that order, with
\* the values the join has at that timestamp.
C4_RowDrop ==
    Returned =>
        /\ Len(df_processed.rows) <= Len(df_final.rows)
        /\ Len(df_processed.rows) = Len(df_final.rows)
              - Cardinality({i \in DOMAIN df_final.rows : Incomplete(df_final.rows[i])})
        /\ df_processed.columns = features \o <<"target">>
        /\ \A i \in DOMAIN df_processed.rows : \A f \in Names(features) :
              /\ ~IsNaN(df_processed.rows[i].cells[f])
              /\ df_processed.rows[i].cells[f]
                    = df_final.rows[Position(df_final.rows,
                                             df_processed.rows[i].time)].cells[f]

C4_Witness ==
    /\ Returned
    /\ Len(df_final.rows) = 3
    /\ Len(df_processed.rows) = 1

\* the temperatures of the joined series that are not missing
Known == {i \in DOMAIN df_final.rows : ~IsNaN(df_final.rows[i].cells["t2m"])}
RECURSIVE SumOfPowers(_, _)
SumOfPowers(I, p) ==
    IF I = {} THEN 0
    ELSE LET i == CHOOSE k \in I : TRUE
             t == df_final.rows[i].cells["t2m"][1]
         IN  (IF p = 2 THEN t * t ELSE t) + SumOfPowers(I \ {i}, p)

\* n times the distance of row r's temperature above the mean
Excess(r) ==
    Cardinality(Known)
        * df_final.rows[Position(df_final.rows, r.time)].cells["t2m"][1]
        - SumOfPowers(Known, 1)
\* n*n times the population variance
Variance2 == Cardinality(Known) * SumOfPowers(Known, 2)
                 - SumOfPowers(Known, 1) * SumOfPowers(Known, 1)

ExceedsPopulation(r) ==
    /\ Cardinality(Known) >= 1
    /\ Excess(r) > 0
    /\ Excess(r) * Excess(r) > 4 * Variance2

ExceedsSample(r) ==
    /\ Cardinality(Known) >= 2
    /\ Excess(r) > 0
    /\ Excess(r) * Excess(r) * (Cardinality(Known) - 1)
          > 4 * Cardinality(Known) * Variance2

\* C5 as stated: every label is 0 or 1, and it is 1 exactly when the row's
\* t2m is strictly above mean + 2*stddev of the joined series, stddev being
\* the population deviation.
C5_PopulationThreshold ==
    Returned =>
        \A i \in DOMAIN df_processed.rows :
            /\ df_processed.rows[i].cells["target"] \in {0, 1}
            /\ df_processed.rows[i].cells["target"] = 1
                  <=> ExceedsPopulation(df_processed.rows[i])

\* C5 amended: every label is 0 or 1, and it is 1 exactly when the row's t2m
\* is strictly above mean + 2*stddev of the whole joined series (rows later
\* dropped included), stddev being the sample deviation (divisor n - 1).
C5_SampleThreshold ==
    Returned =>
        \A i \in DOMAIN df_processed.rows :
            /\ df_processed.rows[i].cells["target"] \in {0, 1}
            /\ df_processed.rows[i].cells["target"] = 1
                  <=> ExceedsSample(df_processed.rows[i])

C5_Witness ==
    /\ Returned
    /\ Len(df_processed.rows) < Len(df_final.rows)
    /\ \E i \in DOMAIN df_processed.rows : df_processed.rows[i].cells["target"] = 1
    /\ \E i \in DOMAIN df_processed.rows : df_processed.rows[i].cells["target"] = 0

\* C6: the label matrix has one row per Dataset row, of width 2, of zeros
\* and ones adding up to 1, with index 1 hot exactly for the label 1.
C6_OneHot ==
    Encoded =>
        /\ Len(y) = Len(df_processed.rows)
        /\ \A i \in DOMAIN y :
              /\ Len(y[i]) = 2
              /\ y[i][1] \in {0, 1} /\ y[i][2] \in {0, 1}
              /\ y[i][1] + y[i][2] = 1
              /\ y[i][2] = 1 <=> df_processed.rows[i].cells["target"] = 1

C6_Witness ==
    /\ Encoded
    /\ \E i \in DOMAIN y : df_processed.rows[i].cells["target"] = 1 /\ y[i] = <<0, 1>>
    /\ \E i \in DOMAIN y : df_processed.rows[i].cells["target"] = 0 /\ y[i] = <<1, 0>>

Feature(i, j) == df_processed.rows[i].cells[features[j]][1]
Lowest(j) == CHOOSE m \in {Feature(i, j) : i \in DOMAIN df_processed.rows} :
                 \A i \in DOMAIN df_processed.rows : m <= Feature(i, j)
Highest(j) == CHOOSE m \in {Feature(i, j) : i \in DOMAIN df_processed.rows} :
                 \A i \in DOMAIN df_processed.rows : m >= Feature(i, j)
Varies(j) == Lowest(j) < Highest(j)

\* C7: a feature column with min < max is rescaled by
\* (x - min)/(max - min) * pi, row by row: the matrix has one row of width 4
\* per Dataset row, every value lies in [0, pi], the minimum maps to 0 and
\* the maximum to pi, order is preserved; [2,4,6,8] becomes
\* [0, pi/3, 2pi/3, pi].
C7_Rescale ==
    /\ Encoded =>
        /\ Len(X) = Len(df_processed.rows)
        /\ \A i \in DOMAIN X : Len(X[i]) = 4
        /\ \A j \in DOMAIN features :
              LET lo == Lowest(j)
                  hi == Highest(j)
              IN  lo < hi =>
                    /\ \A i \in DOMAIN X :
                          /\ 0 <= X[i][j][1] /\ X[i][j][1] <= X[i][j][2]
                          /\ X[i][j][1] * (hi - lo) = X[i][j][2] * (Feature(i, j) - lo)
                          /\ Feature(i, j) = lo => X[i][j] = <<0, 1>>
                          /\ Feature(i, j) = hi => X[i][j] = <<1, 1>>
                    /\ \A i, k \in DOMAIN X :
                          Feature(i, j) < Feature(k, j)
                              => X[i][j][1] * X[k][j][2] < X[k][j][1] * X[i][j][2]
    /\ MinMaxScale(<<2, 4, 6, 8>>) = <<<<0, 1>>, <<1, 3>>, <<2, 3>>, <<1, 1>>>>

C7_Witness ==
    /\ Encoded
    /\ \A j \in DOMAIN features : Varies(j)
    /\ \E i \in DOMAIN X : X[i][1] = <<1, 2>>

\* C8: a constant feature column is never silently rescaled: when
\* prepare_for_quantum returns without an error, such a column holds the
\* values it had in the input.
C8_ConstantColumnKept ==
    Encoded =>
        \A j \in DOMAIN features : ~Varies(j) =>
            \A i \in DOMAIN X : X[i][j][1] = 0 /\ Feature(i, j) = 0

\* C9: relative humidity is computed only when t2m and d2m are both present,
\* and a local series without one of them does not make preprocess_data raise.
C9_AbsentHumidityTolerated ==
    (Exited /\ ~InputMissing /\ era5_nc.valid /\ sst_nc.valid
        /\ Has(sst_nc.vars, "sst")
        /\ ~(Has(era5_nc.vars, "t2m") /\ Has(era5_nc.vars, "d2m"))) =>
        /\ ~Has(df_final.columns, "relative_humidity")
        /\ exc = "none"

\* C10: once preprocess_data has exited, by return or by exception, no
\* dataset it opened is still open.
C10_HandlesReleased == Exited => handles = {}

====
